---- MODULE Spec2Model ----
(***************************************************************************)
(* Model of oreilly_bookfinder: the query construction, the HTTP call, the *)
(* result normalization and the CSV export of api.search_books, and the    *)
(* control flow of the CLI command `search` around it.                     *)
(*                                                                         *)
(* A Python str is a sequence of one-character strings, so that joins,     *)
(* f-strings and comparisons of names are computed, not assumed.           *)
(* None is carried by an isNone flag beside the value.                     *)
(***************************************************************************)
EXTENDS Integers, Sequences, FiniteSets

VARIABLES mode, cli, call, response, pc, params, httpCalls, df, returned,
          raised, csv, out, err

vars == <<mode, cli, call, response, pc, params, httpCalls, df, returned,
          raised, csv, out, err>>

----------------------------------------------------------------------------
(* Bounds of the model *)

MaxTopics == 2

MaxRows == 2

----------------------------------------------------------------------------
(* Strings *)

Space == <<" ">>

Star == <<"*">>

CommaSpace == <<",", " ">>

Underscore == <<"_">>

Dot == <<".">>

Digits == <<"0","1","2","3","4","5","6","7","8","9">>

Digit(n) == Digits[n + 1]

DigitValue(c) == CHOOSE n \in 0..9 : Digits[n + 1] = c

IsDigit(c) == \E n \in 0..9 : Digits[n + 1] = c

\* str.join: the elements of parts with sep between consecutive ones
RECURSIVE Join(_, _)
Join(parts, sep) ==
  IF parts = <<>> THEN <<>>
  ELSE IF Len(parts) = 1 THEN parts[1]
  ELSE parts[1] \o sep \o Join(Tail(parts), sep)

InSeq(x, s) == \E i \in 1..Len(s) : s[i] = x

SeqsUpTo(S, n) == UNION {[1..m -> S] : m \in 0..n}

----------------------------------------------------------------------------
(* Module constants of api.py *)

DEFAULT_TOPICS == <<
  <<"d","a","t","a","-","s","c","i","e","n","c","e">>,
  <<"m","a","c","h","i","n","e","-","l","e","a","r","n","i","n","g">>,
  <<"a","r","t","i","f","i","c","i","a","l","-","i","n","t","e","l","l","i","g","e","n","c","e">>,
  <<"d","a","t","a","-","a","n","a","l","y","s","i","s">>,
  <<"d","e","e","p","-","l","e","a","r","n","i","n","g">>,
  <<"s","t","a","t","i","s","t","i","c","s">>,
  <<"b","i","g","-","d","a","t","a">> >>

K_title == <<"t","i","t","l","e">>

K_authors == <<"a","u","t","h","o","r","s">>

K_issued == <<"i","s","s","u","e","d">>

K_publisher == <<"p","u","b","l","i","s","h","e","r">>

K_description == <<"d","e","s","c","r","i","p","t","i","o","n">>

K_topics == <<"t","o","p","i","c","s">>

K_web_url == <<"w","e","b","_","u","r","l">>

K_archive_id == <<"a","r","c","h","i","v","e","_","i","d">>

K_format == <<"f","o","r","m","a","t">>

CSV_COLUMNS == <<K_title, K_authors, K_issued, K_publisher, K_description,
                 K_topics, K_web_url, K_archive_id, K_format>>

\* the dict column_names of prepare_dataframe_for_export, as (key, value) pairs
column_names == <<
  <<K_title, <<"T","i","t","l","e">> >>,
  <<K_authors, <<"A","u","t","h","o","r","s">> >>,
  <<K_issued, <<"P","u","b","l","i","s","h","e","d"," ","D","a","t","e">> >>,
  <<K_publisher, <<"P","u","b","l","i","s","h","e","r">> >>,
  <<K_description, <<"D","e","s","c","r","i","p","t","i","o","n">> >>,
  <<K_topics, <<"T","o","p","i","c","s">> >>,
  <<K_web_url, <<"U","R","L">> >>,
  <<K_archive_id, <<"A","r","c","h","i","v","e"," ","I","D">> >>,
  <<K_format, <<"F","o","r","m","a","t">> >> >>

----------------------------------------------------------------------------
(* Optional values and dates *)

None == [isNone |-> TRUE, v |-> <<>>]

Some(x) == [isNone |-> FALSE, v |-> x]

NoDate == [isNone |-> TRUE, y |-> 0, m |-> 0, d |-> 0]

Date(y, m, d) == [isNone |-> FALSE, y |-> y, m |-> m, d |-> d]

\* Python truthiness of an Optional[str] or Optional[list]: None and the
\* empty value are false
Truthy(o) == ~o.isNone /\ o.v # <<>>

\* %Y as the C library writes it: the decimal digits of the year, with no
\* padding (1 <= y <= 9999, the range of datetime.date)
year_digits(y) ==
  IF y >= 1000
  THEN << Digit(y \div 1000), Digit((y \div 100) % 10),
          Digit((y \div 10) % 10), Digit(y % 10) >>
  ELSE IF y >= 100
  THEN << Digit(y \div 100), Digit((y \div 10) % 10), Digit(y % 10) >>
  ELSE IF y >= 10
  THEN << Digit(y \div 10), Digit(y % 10) >>
  ELSE << Digit(y) >>

\* strftime("%Y-%m-%d"): the year unpadded, the month and the day on two
\* digits
format_date(d) ==
  year_digits(d.y)
    \o << "-", Digit(d.m \div 10), Digit(d.m % 10), "-",
          Digit(d.d \div 10), Digit(d.d % 10) >>

----------------------------------------------------------------------------
(* search_books, lines 117-155: the query string *)

AuthorClause(a) == <<"a","u","t","h","o","r",":","\"">> \o a \o <<"\"">>

AfterClause(d) == <<"i","s","s","u","e","d",":",">">> \o format_date(d)

BeforeClause(d) == <<"i","s","s","u","e","d",":","<">> \o format_date(d)

TopicClause(t) == <<"t","o","p","i","c",":">> \o t

\* the list search_query after line 136, with the wildcard put when the
\* list is empty without regard to the dates
search_query_ignoring_dates(c) ==
  LET q1 == IF c.query # <<>> THEN <<c.query>> ELSE <<>>
      q2 == IF Truthy(c.author) THEN Append(q1, AuthorClause(c.author.v)) ELSE q1
      q3 == IF ~c.published_after.isNone
            THEN Append(q2, AfterClause(c.published_after)) ELSE q2
      q4 == IF ~c.published_before.isNone
            THEN Append(q3, BeforeClause(c.published_before)) ELSE q3
  IN  IF q2 = <<>> THEN <<Star>> \o q4 ELSE q4

\* the list search_query after line 136
search_query(c) ==
  LET q1 == IF c.query # <<>> THEN <<c.query>> ELSE <<>>
      q2 == IF Truthy(c.author) THEN Append(q1, AuthorClause(c.author.v)) ELSE q1
      q3 == IF ~c.published_after.isNone
            THEN Append(q2, AfterClause(c.published_after)) ELSE q2
      q4 == IF ~c.published_before.isNone
            THEN Append(q3, BeforeClause(c.published_before)) ELSE q3
  IN  IF q4 = <<>> THEN <<Star>> ELSE q4

\* lines 149-150: the value of topics after the default is substituted
resolve_topics(c) ==
  IF c.topics.isNone /\ c.use_default_topics THEN Some(DEFAULT_TOPICS)
  ELSE c.topics

\* params["query"] after line 155
params_query(c) ==
  LET base == Join(search_query(c), Space)
      t    == resolve_topics(c)
  IN  IF Truthy(t)
      THEN base \o Space \o Join([i \in 1..Len(t.v) |-> TopicClause(t.v[i])], Space)
      ELSE base

----------------------------------------------------------------------------
(* JSON values and result rows                                             *)
(* A value is [k, s, l, o]: k is its kind; s is the text of a str or the  *)
(* digits of a number, l the elements of a list of str, o the (key, value) *)
(* items of an object in order.  JSON null, Python's None, is the kind     *)
(* "null"; the NaN that pandas writes in a missing cell is the kind "nan". *)

Null == [k |-> "null", s |-> <<>>, l |-> <<>>, o |-> <<>>]

NaN == [k |-> "nan", s |-> <<>>, l |-> <<>>, o |-> <<>>]

Str(s) == [k |-> "str", s |-> s, l |-> <<>>, o |-> <<>>]

Num(digits) == [k |-> "num", s |-> digits, l |-> <<>>, o |-> <<>>]

List(l) == [k |-> "list", s |-> <<>>, l |-> l, o |-> <<>>]

Obj(items) == [k |-> "obj", s |-> <<>>, l |-> <<>>, o |-> items]

HasKey(d, key) == \E i \in 1..Len(d) : d[i][1] = key

\* dict.get(key), None when the key is absent
Get(d, key) ==
  IF HasKey(d, key) THEN d[CHOOSE i \in 1..Len(d) : d[i][1] = key][2] ELSE Null

Keys(d) == [i \in 1..Len(d) |-> d[i][1]]

RECURSIVE AppendNew(_, _)
AppendNew(acc, ks) ==
  IF ks = <<>> THEN acc
  ELSE AppendNew(IF InSeq(Head(ks), acc) THEN acc ELSE Append(acc, Head(ks)),
                 Tail(ks))

\* the keys of all the records, each once, in order of first appearance
RECURSIVE UnionKeys(_)
UnionKeys(records) ==
  IF records = <<>> THEN <<>>
  ELSE AppendNew(UnionKeys(SubSeq(records, 1, Len(records) - 1)),
                 Keys(records[Len(records)]))

----------------------------------------------------------------------------
(* pandas.DataFrame: ordered column names and, per row, the cells in the   *)
(* order of the columns.  The index is always 0..n-1.                      *)

EmptyFrame == [cols |-> <<>>, rows |-> <<>>]

\* the cells of a list of dicts under given columns: a missing key is NaN;
\* a column holding no str, list or dict, and not None alone, is a float
\* column, in which None is NaN too
frame_of(records, cols) ==
  LET raw(i, j) == IF HasKey(records[i], cols[j]) THEN Get(records[i], cols[j])
                   ELSE NaN
      is_float(j) ==
        /\ \A i \in 1..Len(records) : raw(i, j).k \in {"num", "null", "nan"}
        /\ \E i \in 1..Len(records) : raw(i, j).k # "null"
  IN  [cols |-> cols,
       rows |-> [i \in 1..Len(records) |->
                   [j \in 1..Len(cols) |->
                      IF is_float(j) /\ raw(i, j).k = "null" THEN NaN
                      ELSE raw(i, j)]]]

\* pd.DataFrame(records) with the first record alone deciding the columns
DataFrame_first_row_schema(records) ==
  frame_of(records, IF records = <<>> THEN <<>> ELSE Keys(records[1]))

\* pd.DataFrame(records) for a list of dicts: the columns are the union of
\* the keys in order of first appearance
DataFrame(records) == frame_of(records, UnionKeys(records))

\* DataFrame.empty
empty(d) == Len(d.cols) = 0 \/ Len(d.rows) = 0

HasCol(d, name) == InSeq(name, d.cols)

ColIndex(d, name) == CHOOSE j \in 1..Len(d.cols) : d.cols[j] = name

Cell(d, i, name) == d.rows[i][ColIndex(d, name)]

\* df[names]
Project(d, names) ==
  [cols |-> names,
   rows |-> [i \in 1..Len(d.rows) |->
               [j \in 1..Len(names) |-> Cell(d, i, names[j])]]]

\* df.drop(columns=[name])
Drop(d, name) ==
  Project(d, SelectSeq(d.cols, LAMBDA c : c # name))

\* left.join(right) on the shared index; pandas raises ValueError when a
\* column name occurs on both sides
Overlap(left, right) == \E j \in 1..Len(right.cols) : HasCol(left, right.cols[j])

JoinFrames(left, right) ==
  [cols |-> left.cols \o right.cols,
   rows |-> [i \in 1..Len(left.rows) |-> left.rows[i] \o right.rows[i]]]

\* select_dtypes(include=['object']): the columns of dtype object, which
\* are those holding a str, a list or a dict, and those holding None
\* alone (a float column holds numbers and NaN only)
object_columns(d) ==
  SelectSeq(d.cols, LAMBDA c :
     \E i \in 1..Len(d.rows) : Cell(d, i, c).k \in {"str", "list", "obj", "null"})

----------------------------------------------------------------------------
(* pandas.json_normalize on a list of cells                                *)

\* _normalise_json: the leaves under the nested dicts, keyed by the path
\* joined with "."
RECURSIVE normalise_json(_, _)
normalise_json(items, key_string) ==
  IF items = <<>> THEN <<>>
  ELSE LET e       == Head(items)
           new_key == IF key_string = <<>> THEN e[1]
                      ELSE key_string \o Dot \o e[1]
       IN  (IF e[2].k = "obj" THEN normalise_json(e[2].o, new_key)
            ELSE << <<new_key, e[2]>> >>)
           \o normalise_json(Tail(items), key_string)

\* the dict made of (key, value) pairs set one after the other: a key
\* stands where it was first set and holds the value it was last set to
dict_of(pairs) ==
  LET keys == AppendNew(<<>>, [n \in 1..Len(pairs) |-> pairs[n][1]])
      last(key) == CHOOSE n \in 1..Len(pairs) :
                     /\ pairs[n][1] = key
                     /\ \A m \in (n + 1)..Len(pairs) : pairs[m][1] # key
  IN  [j \in 1..Len(keys) |-> <<keys[j], pairs[last(keys[j])][2]>>]

\* _normalise_json_ordered: the non-dict items first, then the nested ones
normalise_json_ordered(items) ==
  dict_of(SelectSeq(items, LAMBDA e : e[2].k # "obj")
            \o normalise_json(SelectSeq(items, LAMBDA e : e[2].k = "obj"), <<>>))

\* _simple_json_normalize of one element: a dict gives its flattened
\* record, a list gives a list of records (isList), a scalar or None gives
\* the empty record
simple_json_normalize(x) ==
  IF x.k = "obj" THEN [isList |-> FALSE, rec |-> normalise_json_ordered(x.o)]
  ELSE [isList |-> x.k = "list", rec |-> <<>>]

\* json_normalize(cells), as line 174 calls it on a column whose first cell
\* is a dict: DataFrame over the normalised elements, which raises
\* AttributeError when one of them is a list and not a record
json_normalize(cells) ==
  LET n == [i \in 1..Len(cells) |-> simple_json_normalize(cells[i])]
  IN  IF \E i \in 1..Len(n) : n[i].isList
      THEN [raised |-> "AttributeError", df |-> EmptyFrame]
      ELSE [raised |-> "", df |-> DataFrame([i \in 1..Len(n) |-> n[i].rec])]

----------------------------------------------------------------------------
(* search_books, lines 163-178: the result table *)

Column(d, name) == [i \in 1..Len(d.rows) |-> Cell(d, i, name)]

\* the test of line 173 made on the first row in which the column is
\* non-null instead of on row 0
is_nested_first_non_null(d, col) ==
  \E i \in 1..Len(d.rows) :
     /\ Cell(d, i, col).k = "obj"
     /\ \A h \in 1..(i - 1) : Cell(d, h, col).k \in {"null", "nan"}

\* line 173: isinstance(df[col].iloc[0], dict)
is_nested(d, col) == Cell(d, 1, col).k = "obj"

\* lines 174-176: the flattened columns of col, prefixed with its name
nested_frame(d, col) ==
  LET n == json_normalize(Column(d, col)).df
  IN  [n EXCEPT !.cols = [j \in 1..Len(n.cols) |-> col \o Underscore \o n.cols[j]]]

\* lines 172-178: the loop over the object columns of the initial frame;
\* gives the frame, or in raised the exception that ended the loop: the
\* one of json_normalize, or the ValueError of a join on a shared name
RECURSIVE flatten(_, _)
flatten(d, todo) ==
  IF todo = <<>> THEN [raised |-> "", df |-> d]
  ELSE LET col == Head(todo) IN
       IF is_nested(d, col)
       THEN IF json_normalize(Column(d, col)).raised # ""
            THEN [raised |-> json_normalize(Column(d, col)).raised, df |-> d]
            ELSE IF Overlap(Drop(d, col), nested_frame(d, col))
            THEN [raised |-> "ValueError", df |-> d]
            ELSE flatten(JoinFrames(Drop(d, col), nested_frame(d, col)), Tail(todo))
       ELSE flatten(d, Tail(todo))

\* lines 165-178
normalize(results) ==
  IF results = <<>> THEN [raised |-> "", df |-> EmptyFrame]
  ELSE LET d == DataFrame(results) IN flatten(d, object_columns(d))

----------------------------------------------------------------------------
(* prepare_dataframe_for_export *)

\* the lambda of lines 55 and 59: ', '.join(x) if isinstance(x, list) else x
list_join(x) ==
  IF x.k = "list" THEN Str(Join(x.l, CommaSpace)) ELSE x

\* pd.to_datetime on the issued column (pandas 2 or later). The strings
\* modelled are those of the layouts of date_layouts, in which 9 stands
\* for a digit, with a year that fits a nanosecond timestamp, and the
\* words of not_dates, which no parser reads as a date; the numbers
\* modelled are the nanosecond counts of the first day of the epoch. TLC
\* stops on a column outside these (no arm of a CASE below is true).
date_layouts == <<
  <<"9","9","9","9","-","9","9","-","9","9">>,
  <<"9","9","9","9","-","9","9","-","9","9","T","9","9",":","9","9",":","9","9","Z">>,
  <<"9","9","9","9","-","9","9","-","9","9","T","9","9",":","9","9",":","9","9">>,
  <<"9","9","9","9","-","9","9","-","9","9"," ","9","9",":","9","9",":","9","9">>,
  <<"9","9","9","9","/","9","9","/","9","9">> >>

not_dates == { <<"s","o","o","n">> }

has_layout(s, f) ==
  /\ Len(s) = Len(f)
  /\ \A i \in 1..Len(f) : IF f[i] = "9" THEN IsDigit(s[i]) ELSE s[i] = f[i]

\* guess_datetime_format: the index of the layout of s, 0 when it has none
guess_datetime_format(s) ==
  IF \E n \in 1..Len(date_layouts) : has_layout(s, date_layouts[n])
  THEN CHOOSE n \in 1..Len(date_layouts) : has_layout(s, date_layouts[n])
  ELSE 0

two_digits(s, i) == 10 * DigitValue(s[i]) + DigitValue(s[i + 1])

\* the date fields of a string that has a layout
ParseIsoDate(s) ==
  Date(100 * two_digits(s, 1) + two_digits(s, 3), two_digits(s, 6), two_digits(s, 9))

days_in_month(y, m) ==
  IF m \in {4, 6, 9, 11} THEN 30
  ELSE IF m # 2 THEN 31
  ELSE IF y % 4 = 0 /\ (y % 100 # 0 \/ y % 400 = 0) THEN 29
  ELSE 28

\* the fields of a string that has a layout name a day and a time of day
fields_exist(s) ==
  LET t == ParseIsoDate(s) IN
  /\ t.m \in 1..12
  /\ t.d >= 1 /\ t.d <= days_in_month(t.y, t.m)
  /\ Len(s) > 10 => /\ two_digits(s, 12) <= 23
                    /\ two_digits(s, 15) <= 59
                    /\ two_digits(s, 18) <= 59

\* the years whose every day fits datetime64[ns]
fits_nanoseconds(s) == ParseIsoDate(s).y \in 1678..2261

\* the string is read as a date: a word of not_dates is not, nor is a
\* layout whose fields name no day or no time of day
is_date(s) ==
  CASE s \in not_dates -> FALSE
    [] guess_datetime_format(s) # 0 /\ ~fields_exist(s) -> FALSE
    [] guess_datetime_format(s) # 0 /\ fields_exist(s) /\ fits_nanoseconds(s) -> TRUE

\* a cell parsed with the layout guessed from the first string does not
\* match it: a list or a dict, a string that is no date, or a date in
\* another layout
cell_mismatch(x, first) ==
  CASE x.k \in {"list", "obj"} -> TRUE
    [] x.k = "str" ->
         ~is_date(x.s) \/ guess_datetime_format(x.s) # guess_datetime_format(first)

\* the exception of pd.to_datetime at line 63, "" when it returns. The
\* first cell that is neither None nor NaN decides: a list or a dict is a
\* TypeError; a string that is no date a DateParseError; a date gives the
\* layout that every other cell must match, with a ValueError when one
\* does not; a number has the column read as nanoseconds
to_datetime_error(d) ==
  LET col   == [i \in 1..Len(d.rows) |-> Cell(d, i, K_issued)]
      cells == SelectSeq(col, LAMBDA x : x.k \notin {"null", "nan"})
  IN  IF cells = <<>> THEN ""
      ELSE
        CASE cells[1].k \in {"list", "obj"} -> "TypeError"
          [] cells[1].k = "str" /\ ~is_date(cells[1].s) -> "DateParseError"
          [] cells[1].k = "str" /\ is_date(cells[1].s) ->
               IF \E i \in 1..Len(cells) : cell_mismatch(cells[i], cells[1].s)
               THEN "ValueError" ELSE ""
          [] /\ cells[1].k = "num"
             /\ \A i \in 1..Len(cells) :
                  /\ cells[i].k \in {"num", "list", "obj"}
                  /\ Len(cells[i].s) <= 13 ->
               IF \E i \in 1..Len(cells) : cells[i].k \in {"list", "obj"}
               THEN "TypeError" ELSE ""

\* lines 55 and 59: df[name] = df[name].apply(lambda)
apply_list_join(d, name) ==
  [d EXCEPT !.rows = [i \in 1..Len(d.rows) |->
     [j \in 1..Len(d.cols) |->
        IF d.cols[j] = name THEN list_join(d.rows[i][j]) ELSE d.rows[i][j]]]]

\* line 63 on one cell of a column that parsed: a date is printed as
\* %Y-%m-%d, and NaT gives NaN
issued_cell(x) ==
  IF x.k = "str" THEN Str(format_date(ParseIsoDate(x.s)))
  ELSE IF x.k = "num" THEN Str(format_date(Date(1970, 1, 1)))
  ELSE NaN

\* line 63: the issued column replaced
format_issued(d) ==
  [d EXCEPT !.rows = [i \in 1..Len(d.rows) |->
     [j \in 1..Len(d.cols) |->
        IF d.cols[j] = K_issued THEN issued_cell(d.rows[i][j]) ELSE d.rows[i][j]]]]

\* line 66 with the order of the frame's own columns
available_columns_in_frame_order(d) ==
  SelectSeq(d.cols, LAMBDA c : InSeq(c, CSV_COLUMNS))

\* line 66
available_columns(d) ==
  SelectSeq(CSV_COLUMNS, LAMBDA c : HasCol(d, c))

\* column_names.get(col, col)
display_name(col) ==
  IF \E i \in 1..Len(column_names) : column_names[i][1] = col
  THEN column_names[CHOOSE i \in 1..Len(column_names) : column_names[i][1] = col][2]
  ELSE col

\* lines 47-83; gives the export frame, or in raised the exception of
\* to_datetime
prepare_dataframe_for_export(d) ==
  IF empty(d) THEN [raised |-> "", df |-> d]
  ELSE
    LET e1 == IF HasCol(d, K_authors) THEN apply_list_join(d, K_authors) ELSE d
        e2 == IF HasCol(e1, K_topics) THEN apply_list_join(e1, K_topics) ELSE e1
    IN  IF HasCol(e2, K_issued) /\ to_datetime_error(e2) # ""
        THEN [raised |-> to_datetime_error(e2), df |-> d]
        ELSE
          LET e3 == IF HasCol(e2, K_issued) THEN format_issued(e2)
                    ELSE e2
              e4 == Project(e3, available_columns(e3))
          IN  [raised |-> "",
               df |-> [e4 EXCEPT !.cols = [j \in 1..Len(e4.cols) |-> display_name(e4.cols[j])]]]

----------------------------------------------------------------------------
(* get_available_topics *)

get_available_topics == <<
  <<"p","y","t","h","o","n">>,
  <<"j","a","v","a","s","c","r","i","p","t">>,
  <<"j","a","v","a">>,
  <<"d","a","t","a","-","s","c","i","e","n","c","e">>,
  <<"m","a","c","h","i","n","e","-","l","e","a","r","n","i","n","g">>,
  <<"w","e","b","-","d","e","v","e","l","o","p","m","e","n","t">>,
  <<"d","e","v","o","p","s">>,
  <<"s","e","c","u","r","i","t","y">>,
  <<"c","l","o","u","d">>,
  <<"d","a","t","a","b","a","s","e","s">>,
  <<"p","r","o","g","r","a","m","m","i","n","g">>,
  <<"s","o","f","t","w","a","r","e","-","e","n","g","i","n","e","e","r","i","n","g">>,
  <<"a","r","t","i","f","i","c","i","a","l","-","i","n","t","e","l","l","i","g","e","n","c","e">>,
  <<"d","a","t","a","-","a","n","a","l","y","s","i","s">>,
  <<"d","e","e","p","-","l","e","a","r","n","i","n","g">>,
  <<"s","t","a","t","i","s","t","i","c","s">>,
  <<"b","i","g","-","d","a","t","a">> >>

----------------------------------------------------------------------------
(* cli.search, lines 93-101: the lines echoed for the rows *)

\* ', '.join(row.get(name, [])) raises TypeError on NaN, None or a number
join_raises(d, i, name) ==
  HasCol(d, name) /\ Cell(d, i, name).k \in {"null", "nan", "num"}

row_raises(d, i) == join_raises(d, i, K_authors) \/ join_raises(d, i, K_topics)

\* the lines echoed for row i, up to the raise if there is one
row_lines(d, i) ==
  IF join_raises(d, i, K_authors) THEN << <<"Title", i>> >>
  ELSE << <<"Title", i>>, <<"Authors", i>>, <<"Published", i>>, <<"URL", i>> >>
       \o (IF join_raises(d, i, K_topics) THEN <<>>
           ELSE (IF HasCol(d, K_topics) THEN << <<"Topics", i>> >> ELSE <<>>)
                \o << <<"rule", i>> >>)

RECURSIVE rows_lines(_, _)
rows_lines(d, i) ==
  IF i > Len(d.rows) THEN <<>>
  ELSE IF row_raises(d, i) THEN row_lines(d, i)
  ELSE row_lines(d, i) \o rows_lines(d, i + 1)

rows_raise(d) == \E i \in 1..Len(d.rows) : row_raises(d, i)

----------------------------------------------------------------------------
(* Inputs: the filters of a call and the replies of the provider *)

Q_py == <<"p","y">>

A_JG == <<"J"," ","G">>

T_cloud == <<"c","l","o","u","d">>

T_java == <<"j","a","v","a">>

D_after == Date(2023, 1, 1)

D_before == Date(2024, 12, 31)

\* a date before the year 1000, as `--after 0999-12-31` gives
D_old == Date(999, 12, 31)

TopicLists == SeqsUpTo({T_cloud, T_java}, MaxTopics)

K_info == <<"i","n","f","o">>

K_pages == <<"p","a","g","e","s">>

K_info_pages == <<"i","n","f","o","_","p","a","g","e","s">>

K_isbn == <<"i","s","b","n">>

K_meta == <<"m","e","t","a">>

K_lang == <<"l","a","n","g">>

K_meta_lang == <<"m","e","t","a","_","l","a","n","g">>

K_info_meta == <<"i","n","f","o","_","m","e","t","a">>

IsoStamp == <<"2","0","2","3","-","0","5","-","0","1","T","0","0",":","0","0",":","0","0","Z">>

IsoDay == <<"2","0","2","3","-","0","5","-","0","1">>

\* the record of the specification's example
R1 == << <<K_title, Str(<<"X">>)>>,
         <<K_authors, List(<< <<"A">>, <<"B">> >>)>>,
         <<K_info, Obj(<< <<K_pages, Num(<<"1","0">>)>> >>)>> >>

\* a null where other records have an object, and a key of its own
R2 == << <<K_title, Str(<<"Y">>)>>,
         <<K_info, Null>>,
         <<K_publisher, Str(<<"P">>)>>,
         <<K_issued, Str(IsoStamp)>> >>

\* a top-level key that is also the flattened name of a nested one
R3 == << <<K_info, Obj(<< <<K_pages, Num(<<"7">>)>> >>)>>,
         <<K_info_pages, Num(<<"5">>)>> >>

\* an object inside the object, and lists under description and topics
R4 == << <<K_title, Str(<<"Z">>)>>,
         <<K_authors, List(<< <<"C">> >>)>>,
         <<K_info, Obj(<< <<K_meta, Obj(<< <<K_lang, Str(<<"e","n">>)>> >>)>>,
                          <<K_isbn, Str(<<"I">>)>> >>)>>,
         <<K_description, List(<< <<"d">>, <<"e">> >>)>>,
         <<K_topics, List(<< <<"t">>, <<"u">> >>)>> >>

\* a scalar where other records have an object, and a date that does not parse
R5 == << <<K_info, Num(<<"3">>)>>,
         <<K_authors, Str(<<"A">>)>>,
         <<K_description, Str(<<"D">>)>>,
         <<K_issued, Str(<<"s","o","o","n">>)>> >>

\* export columns in another order than CSV_COLUMNS, and a date written in
\* another layout than that of R2
R6 == << <<K_web_url, Str(<<"u">>)>>,
         <<K_issued, Str(IsoDay)>>,
         <<K_title, Str(<<"W">>)>>,
         <<K_authors, List(<<>>)>> >>

\* an array where other records have an object, and one where they have
\* a date
R7 == << <<K_title, Str(<<"V">>)>>,
         <<K_info, List(<< <<"a">> >>)>>,
         <<K_issued, List(<< <<"b">> >>)>> >>

\* two objects that give the same flattened name
R8 == << <<K_info, Obj(<< <<K_meta_lang, Str(<<"e">>)>> >>)>>,
         <<K_info_meta, Obj(<< <<K_lang, Str(<<"f">>)>> >>)>> >>

RowPool == {R1, R2, R3, R4, R5, R6, R7, R8}

\* requests.get raises (network failure), or returns the final reply: its
\* status, and its body, which is {"results": [...]} or no JSON at all
NetworkFailure == [kind |-> "network", status |-> 0, parses |-> FALSE, results |-> <<>>]

Reply(status, results) ==
  [kind |-> "reply", status |-> status, parses |-> TRUE, results |-> results]

Malformed(status) ==
  [kind |-> "reply", status |-> status, parses |-> FALSE, results |-> <<>>]

BasicResponses ==
  {NetworkFailure, Reply(404, <<>>), Reply(503, <<R1>>), Reply(300, <<R1>>),
   Malformed(304), Malformed(200), Reply(200, <<>>), Reply(200, <<R1>>)}

RichResponses == {Reply(200, r) : r \in SeqsUpTo(RowPool, MaxRows)}

NoCall == [query |-> <<>>, author |-> None, published_after |-> NoDate,
           published_before |-> NoDate, topics |-> None,
           use_default_topics |-> TRUE, export_to_csv |-> FALSE]

NoCli == [query |-> None, author |-> None, after |-> NoDate, before |-> NoDate,
          topic |-> <<>>, list_topics |-> FALSE, all_topics |-> FALSE,
          output |-> FALSE]

\* direct calls of search_books
ApiCalls ==
  [query : {<<>>, Q_py}, author : {None, Some(<<>>), Some(A_JG)},
   published_after : {NoDate, D_after, D_old}, published_before : {NoDate, D_before},
   topics : {None} \cup {Some(t) : t \in TopicLists},
   use_default_topics : BOOLEAN, export_to_csv : BOOLEAN]

BasicApiCalls ==
  {[NoCall EXCEPT !.query = Q_py, !.export_to_csv = x] : x \in BOOLEAN}

\* command lines of `search`
CliArgs ==
  [query : {None, Some(<<>>), Some(Q_py)}, author : {None, Some(A_JG)},
   after : {NoDate, D_after, D_old}, before : {NoDate, D_before},
   topic : TopicLists, list_topics : BOOLEAN, all_topics : BOOLEAN,
   output : BOOLEAN]

BasicCliArgs ==
  {[NoCli EXCEPT !.query = Some(Q_py), !.output = x] : x \in BOOLEAN}

----------------------------------------------------------------------------
(* The state machine *)

Init ==
  /\ \/ /\ mode = "api" /\ cli = NoCli /\ pc = "build"
        /\ \/ call \in ApiCalls /\ response \in BasicResponses
           \/ call \in BasicApiCalls /\ response \in RichResponses
     \/ /\ mode = "cli" /\ call = NoCall /\ pc = "cli"
        /\ \/ cli \in CliArgs /\ response \in BasicResponses
           \/ cli \in BasicCliArgs /\ response \in RichResponses
  /\ params = [query |-> <<>>, formats |-> ""]
  /\ httpCalls = 0
  /\ df = EmptyFrame
  /\ returned = FALSE
  /\ raised = ""
  /\ csv = <<>>
  /\ out = <<>>
  /\ err = <<>>

\* cli.search line 73 with the dates and topics counted as filters
no_filter_at_all(a) ==
  ~Truthy(a.query) /\ ~Truthy(a.author) /\ a.after.isNone /\ a.before.isNone
  /\ a.topic = <<>>

\* cli.search line 73: not query and not author
no_query_and_no_author(a) == ~Truthy(a.query) /\ ~Truthy(a.author)

\* cli.search lines 78-87: the arguments passed to search_books
cli_call(a) ==
  [query |-> IF Truthy(a.query) THEN a.query.v ELSE <<>>,
   author |-> a.author,
   published_after |-> a.after,
   published_before |-> a.before,
   topics |-> IF a.topic # <<>> THEN Some(a.topic) ELSE None,
   use_default_topics |-> ~a.all_topics,
   export_to_csv |-> FALSE]

\* cli.search lines 66-87
CliSearch ==
  /\ pc = "cli"
  /\ IF cli.list_topics
     THEN /\ out' = << <<"Available topics:", 0>> >>
                    \o [i \in 1..Len(get_available_topics) |-> <<"topic", i>>]
          /\ pc' = "done"
          /\ call' = call
     ELSE IF no_query_and_no_author(cli)
     THEN /\ out' = << <<"Please provide either a search query or an author name.", 0>> >>
          /\ pc' = "done"
          /\ call' = call
     ELSE /\ call' = cli_call(cli)
          /\ pc' = "build"
          /\ out' = out
  /\ UNCHANGED <<mode, cli, response, params, httpCalls, df, returned, raised,
                 csv, err>>

\* search_books lines 117-155
BuildQuery ==
  /\ pc = "build"
  /\ params' = [query |-> params_query(call), formats |-> "book"]
  /\ pc' = "get"
  /\ UNCHANGED <<mode, cli, call, response, httpCalls, df, returned, raised,
                 csv, out, err>>

\* line 158: response.raise_for_status() raises HTTPError for the client
\* and server errors, 400 to 599, and for no other status
raise_for_status(r) == r.status >= 400 /\ r.status < 600

\* search_books lines 157-158
HttpGet ==
  /\ pc = "get"
  /\ httpCalls' = httpCalls + 1
  /\ IF response.kind = "network"
     THEN raised' = "ConnectionError" /\ pc' = "raise"
     ELSE IF raise_for_status(response)
     THEN raised' = "HTTPError" /\ pc' = "raise"
     ELSE raised' = raised /\ pc' = "normalize"
  /\ UNCHANGED <<mode, cli, call, response, params, df, returned, csv, out, err>>

\* search_books lines 160-178; response.json() raises on a body that is
\* no JSON
Normalize ==
  /\ pc = "normalize"
  /\ LET n == normalize(response.results)
     IN  IF ~response.parses
         THEN raised' = "JSONDecodeError" /\ pc' = "raise" /\ df' = df
         ELSE IF n.raised # ""
         THEN raised' = n.raised /\ pc' = "raise" /\ df' = df
         ELSE raised' = raised /\ pc' = "export" /\ df' = n.df
  /\ UNCHANGED <<mode, cli, call, response, params, httpCalls, returned, csv,
                 out, err>>

\* search_books lines 180-184; line 166 returns the empty frame at once
Export ==
  /\ pc = "export"
  /\ IF response.results # <<>> /\ call.export_to_csv
     THEN LET e == prepare_dataframe_for_export(df)
          IN  IF e.raised # ""
              THEN raised' = e.raised /\ pc' = "raise"
                   /\ csv' = csv /\ returned' = returned
              ELSE /\ csv' = Append(csv, [by |-> "search_books", frame |-> e.df])
                   /\ returned' = TRUE
                   /\ raised' = raised
                   /\ pc' = IF mode = "cli" THEN "show" ELSE "done"
     ELSE /\ returned' = TRUE
          /\ pc' = IF mode = "cli" THEN "show" ELSE "done"
          /\ csv' = csv /\ raised' = raised
  /\ UNCHANGED <<mode, cli, call, response, params, httpCalls, df, out, err>>

\* cli.search lines 89-108; a successful export echoes two lines, the
\* notice of line 107 and the column names of line 108
CliShow ==
  /\ pc = "show"
  /\ IF empty(df)
     THEN /\ out' = Append(out, <<"No results found.", 0>>)
          /\ pc' = "done" /\ csv' = csv /\ raised' = raised
     ELSE IF rows_raise(df)
     THEN /\ out' = out \o rows_lines(df, 1)
          /\ raised' = "TypeError" /\ pc' = "raise" /\ csv' = csv
     ELSE IF cli.output
     THEN LET e == prepare_dataframe_for_export(df)
          IN  IF e.raised # ""
              THEN /\ out' = out \o rows_lines(df, 1)
                   /\ raised' = e.raised /\ pc' = "raise" /\ csv' = csv
              ELSE /\ csv' = Append(csv, [by |-> "cli", frame |-> e.df])
                   /\ out' = out \o rows_lines(df, 1) \o << <<"Results exported", 0>>, <<"columns", 0>> >>
                   /\ pc' = "done" /\ raised' = raised
     ELSE /\ out' = out \o rows_lines(df, 1)
          /\ pc' = "done" /\ csv' = csv /\ raised' = raised
  /\ UNCHANGED <<mode, cli, call, response, params, httpCalls, df, returned, err>>

\* cli.search lines 110-111: except Exception, echo to stderr
CliExcept ==
  /\ pc = "raise" /\ mode = "cli"
  /\ err' = Append(err, raised)
  /\ pc' = "done"
  /\ UNCHANGED <<mode, cli, call, response, params, httpCalls, df, returned,
                 raised, csv, out>>

\* a direct call: the exception leaves search_books for its caller
ApiRaise ==
  /\ pc = "raise" /\ mode = "api"
  /\ pc' = "raised"
  /\ UNCHANGED <<mode, cli, call, response, params, httpCalls, df, returned,
                 raised, csv, out, err>>

Next ==
  \/ CliSearch
  \/ BuildQuery
  \/ HttpGet
  \/ Normalize
  \/ Export
  \/ CliShow
  \/ CliExcept
  \/ ApiRaise

Spec == Init /\ [][Next]_vars

----------------------------------------------------------------------------
(* Properties of the query string *)

\* s, cut at its spaces, has the clause c
ContainsClause(s, c) ==
  \E i \in 1..Len(s) : \E j \in i..Len(s) :
     /\ SubSeq(s, i, j) = c
     /\ i = 1 \/ s[i - 1] = " "
     /\ j = Len(s) \/ s[j + 1] = " "

\* search_books has built its query string
Built == params.formats = "book"

FilterAbsent ==
  /\ call.query = <<>> /\ ~Truthy(call.author)
  /\ call.published_after.isNone /\ call.published_before.isNone

C1_BuiltInTopics == <<
  <<"t","o","p","i","c",":","d","a","t","a","-","s","c","i","e","n","c","e">>,
  <<"t","o","p","i","c",":","m","a","c","h","i","n","e","-","l","e","a","r","n","i","n","g">>,
  <<"t","o","p","i","c",":","a","r","t","i","f","i","c","i","a","l","-","i","n","t","e","l","l","i","g","e","n","c","e">>,
  <<"t","o","p","i","c",":","d","a","t","a","-","a","n","a","l","y","s","i","s">>,
  <<"t","o","p","i","c",":","d","e","e","p","-","l","e","a","r","n","i","n","g">>,
  <<"t","o","p","i","c",":","s","t","a","t","i","s","t","i","c","s">>,
  <<"t","o","p","i","c",":","b","i","g","-","d","a","t","a">> >>

\* C1: with use_default_topics true and no explicit topics (topics None or
\* the empty list), the query string has a clause topic:<name> for each of
\* the seven built-in topics.
C1_DefaultsWhenNoTopics ==
  (Built /\ call.use_default_topics /\ ~Truthy(call.topics))
    => \A i \in 1..Len(C1_BuiltInTopics) :
          ContainsClause(params.query, C1_BuiltInTopics[i])

\* C2: the wildcard clause * is in the query string exactly when the query
\* is empty, no author and no date is given; with no topics either and no
\* default topics the query string is exactly "*".
C2_WildcardIffNoFilter ==
  Built =>
    /\ ContainsClause(params.query, <<"*">>) <=> FilterAbsent
    /\ (FilterAbsent /\ ~Truthy(call.topics) /\ ~call.use_default_topics)
         => params.query = <<"*">>

C2_Witness ==
  /\ Built /\ FilterAbsent /\ call.topics = Some(<<>>)
  /\ ~call.use_default_topics /\ params.query = <<"*">>

\* the claim's YYYY-MM-DD: four digits of year, two of month, two of day
C3_IsoDate(d) ==
  << Digit(d.y \div 1000), Digit((d.y \div 100) % 10),
     Digit((d.y \div 10) % 10), Digit(d.y % 10), "-",
     Digit(d.m \div 10), Digit(d.m % 10), "-",
     Digit(d.d \div 10), Digit(d.d % 10) >>

\* the clauses before the topics, in the order of the claim
C3_LeadClauses ==
  LET present ==
        (IF call.query # <<>> THEN <<call.query>> ELSE <<>>)
        \o (IF Truthy(call.author)
            THEN << <<"a","u","t","h","o","r",":","\"">> \o call.author.v \o <<"\"">> >>
            ELSE <<>>)
        \o (IF ~call.published_after.isNone
            THEN << <<"i","s","s","u","e","d",":",">">> \o C3_IsoDate(call.published_after) >>
            ELSE <<>>)
        \o (IF ~call.published_before.isNone
            THEN << <<"i","s","s","u","e","d",":","<">> \o C3_IsoDate(call.published_before) >>
            ELSE <<>>)
  IN  IF present = <<>> THEN << <<"*">> >> ELSE present

\* the topics in effect: the given ones, or the defaults for topics None
C3_EffectiveTopics ==
  IF ~call.topics.isNone THEN call.topics.v
  ELSE IF call.use_default_topics THEN DEFAULT_TOPICS ELSE <<>>

C3_TopicClauses ==
  [i \in 1..Len(C3_EffectiveTopics) |-> <<"t","o","p","i","c",":">> \o C3_EffectiveTopics[i]]

\* C3: the query string is the single-space join of the present clauses in
\* the order query, author, issued:>, issued:<, then one topic clause per
\* effective topic in the order given (the wildcard of C2 stands for the
\* first four when none is present), each date written YYYY-MM-DD; the date
\* 2023-01-01 is written issued:>2023-01-01.
C3_ClauseOrder ==
  Built =>
    /\ params.query = Join(C3_LeadClauses \o C3_TopicClauses, <<" ">>)
    /\ call.published_after = Date(2023, 1, 1)
         => ContainsClause(params.query, <<"i","s","s","u","e","d",":",">","2","0","2","3","-","0","1","-","0","1">>)
    /\ (call.query = <<"p","y">> /\ call.author = Some(<<"J"," ","G">>))
         => SubSeq(params.query, 1, 15) = <<"p","y"," ","a","u","t","h","o","r",":","\"","J"," ","G","\"">>

----------------------------------------------------------------------------
(* Properties of the result table *)

results == response.results

\* search_books has built the table of a non-empty result list
Normalized == results # <<>> /\ (pc = "export" \/ returned)

Rows == 1..Len(results)

AllKeys == UNION {{results[i][n][1] : n \in 1..Len(results[i])} : i \in Rows}

\* the paths to the leaves of an object
RECURSIVE LeafPaths(_)
LeafPaths(items) ==
  UNION {IF items[n][2].k = "obj"
         THEN {<<items[n][1]>> \o p : p \in LeafPaths(items[n][2].o)}
         ELSE {<<items[n][1]>>} : n \in 1..Len(items)}

\* a null cell of the table: None or NaN
IsBlank(x) == x.k \in {"null", "nan"}

\* the cell holds the value, any null cell standing for null
Holds(cell, x) == cell = x \/ (IsBlank(cell) /\ x = Null)

\* the value at a path of a value, null when there is none
RECURSIVE ValueAt(_, _)
ValueAt(x, path) ==
  IF path = <<>> THEN x
  ELSE IF x.k = "obj" THEN ValueAt(Get(x.o, Head(path)), Tail(path))
  ELSE Null

\* the first row in which the key is non-null, 0 when there is none
FirstNonNull(key) ==
  IF \E i \in Rows : Get(results[i], key).k # "null"
  THEN CHOOSE i \in Rows : /\ Get(results[i], key).k # "null"
                           /\ \A h \in 1..(i - 1) : Get(results[h], key).k = "null"
  ELSE 0

PathsUnder(key) ==
  UNION {IF Get(results[i], key).k = "obj" THEN LeafPaths(Get(results[i], key).o)
         ELSE {} : i \in Rows}

FlatName(key, path) == key \o <<"_">> \o Join(path, <<".">>)

\* the place of the first appearance of a key: the row, then the position
FirstRowOf(key) == CHOOSE i \in Rows :
  HasKey(results[i], key) /\ \A h \in 1..(i - 1) : ~HasKey(results[h], key)

PositionOf(key) ==
  CHOOSE n \in 1..Len(results[FirstRowOf(key)]) : results[FirstRowOf(key)][n][1] = key

AppearsBefore(a, b) ==
  \/ FirstRowOf(a) < FirstRowOf(b)
  \/ FirstRowOf(a) = FirstRowOf(b) /\ PositionOf(a) < PositionOf(b)

\* an exception left lines 163-178: the body was parsed, and the table was
\* not built
NormalizeRaised ==
  /\ raised \notin {"", "ConnectionError", "HTTPError", "JSONDecodeError"}
  /\ results # <<>> /\ df = EmptyFrame

\* the keys whose value in row 0 is an object
C4_Flattened == {key \in AllKeys : Get(results[1], key).k = "obj"}

C4_Names(key) == {FlatName(key, path) : path \in PathsUnder(key)}

\* the other columns of the table when the key is flattened: the keys not
\* flattened before it, and the columns made of those that were
C4_ColumnsAt(key) ==
  {k \in AllKeys : k # key /\ ~(k \in C4_Flattened /\ AppearsBefore(k, key))}
  \cup UNION {C4_Names(k) : k \in {h \in C4_Flattened : AppearsBefore(h, key)}}

\* a key to flatten has an array in some row, or gives a name that another
\* column has
C4_Raises ==
  \E key \in C4_Flattened :
    \/ \E i \in Rows : Get(results[i], key).k = "list"
    \/ C4_Names(key) \cap C4_ColumnsAt(key) # {}

FirstRowColumns ==
  LET keys == {results[1][n][1] : n \in 1..Len(results[1])}
  IN  {key \in keys : Get(results[1], key).k # "obj"}
      \cup UNION {{FlatName(key, path) : path \in LeafPaths(Get(results[1], key).o)} :
                    key \in {k \in keys : Get(results[1], k).k = "obj"}}

\* C5 as stated: the columns are those of the first row alone; a key or
\* nested subkey that occurs only in a later row is no column, and a later
\* row lacking a column of the first row has a null cell in it.
C5_FirstRowSchema ==
  Normalized =>
    /\ {df.cols[j] : j \in 1..Len(df.cols)} = FirstRowColumns
    /\ \A i \in Rows : \A key \in AllKeys :
         (HasCol(df, key) /\ ~HasKey(results[i], key)) => IsBlank(Cell(df, i, key))

\* the columns all the rows give
UnionColumns ==
  {key \in AllKeys : Get(results[1], key).k # "obj"}
  \cup UNION {{FlatName(key, path) : path \in PathsUnder(key)} :
                key \in {k \in AllKeys : Get(results[1], k).k = "obj"}}

\* C5, amended: the columns are the union over all the rows of the
\* top-level keys (for a key that is an object in row 0: of the leaf paths of
\* every row's object), each once; the kept top-level columns stand in the
\* order of their first appearance and before the flattened ones; a row
\* lacking a column has a null cell in it.
C5_UnionSchema ==
  Normalized =>
    /\ {df.cols[j] : j \in 1..Len(df.cols)} = UnionColumns
    /\ \A a, b \in 1..Len(df.cols) :
         a < b =>
           /\ df.cols[a] # df.cols[b]
           /\ df.cols[b] \in AllKeys =>
                df.cols[a] \in AllKeys /\ AppearsBefore(df.cols[a], df.cols[b])
    /\ \A i \in Rows :
         /\ Len(df.rows[i]) = Len(df.cols)
         /\ \A key \in AllKeys :
              (HasCol(df, key) /\ ~HasKey(results[i], key)) => IsBlank(Cell(df, i, key))

C5_Witness ==
  /\ Normalized /\ Len(results) = 2
  /\ ~HasKey(results[1], K_publisher) /\ HasKey(results[2], K_publisher)
  /\ HasKey(results[1], K_authors) /\ ~HasKey(results[2], K_authors)
  /\ HasCol(df, K_publisher)
  /\ Cell(df, 2, K_authors) = NaN

\* C6: building the table never raises.
C6_NormalizeNeverRaises == ~NormalizeRaised

----------------------------------------------------------------------------
(* Properties of the export *)

\* the fixed export columns: the source name and the display name
C7_Fixed == <<
  << <<"t","i","t","l","e">>,
     <<"T","i","t","l","e">> >>,
  << <<"a","u","t","h","o","r","s">>,
     <<"A","u","t","h","o","r","s">> >>,
  << <<"i","s","s","u","e","d">>,
     <<"P","u","b","l","i","s","h","e","d"," ","D","a","t","e">> >>,
  << <<"p","u","b","l","i","s","h","e","r">>,
     <<"P","u","b","l","i","s","h","e","r">> >>,
  << <<"d","e","s","c","r","i","p","t","i","o","n">>,
     <<"D","e","s","c","r","i","p","t","i","o","n">> >>,
  << <<"t","o","p","i","c","s">>,
     <<"T","o","p","i","c","s">> >>,
  << <<"w","e","b","_","u","r","l">>,
     <<"U","R","L">> >>,
  << <<"a","r","c","h","i","v","e","_","i","d">>,
     <<"A","r","c","h","i","v","e"," ","I","D">> >>,
  << <<"f","o","r","m","a","t">>,
     <<"F","o","r","m","a","t">> >> >>

C7_Place(name) == CHOOSE n \in 1..Len(C7_Fixed) : C7_Fixed[n][2] = name

\* the export frames written: by search_books and by the CLI
Written == {csv[n].frame : n \in 1..Len(csv)}

\* C7: the columns of the export of a non-empty table are the display names
\* of the fixed export columns that the table has, in the fixed order; no
\* absent column is added and no other column is kept.
C7_ExportColumns ==
  \A e \in Written :
    ~empty(df) =>
      /\ \A n \in 1..Len(C7_Fixed) :
           InSeq(C7_Fixed[n][2], e.cols) <=> HasCol(df, C7_Fixed[n][1])
      /\ \A j \in 1..Len(e.cols) : \E n \in 1..Len(C7_Fixed) : e.cols[j] = C7_Fixed[n][2]
      /\ \A a, b \in 1..Len(e.cols) :
           a < b => C7_Place(e.cols[a]) < C7_Place(e.cols[b])

C7_Witness ==
  \E e \in Written :
    /\ HasCol(df, K_info)
    /\ df.cols = <<K_title, K_info, K_publisher, K_issued>>
    /\ Len(e.cols) = 3

\* the source names of the fixed columns that the table has
C8_Present == {C7_Fixed[n][1] : n \in {m \in 1..Len(C7_Fixed) : HasCol(df, C7_Fixed[m][1])}}

C8_Display(col) == C7_Fixed[CHOOSE n \in 1..Len(C7_Fixed) : C7_Fixed[n][1] = col][2]

\* the elements of a list with ", " between them
RECURSIVE C8_CommaJoined(_)
C8_CommaJoined(l) ==
  IF Len(l) = 0 THEN <<>>
  ELSE IF Len(l) = 1 THEN l[1]
  ELSE C8_CommaJoined(SubSeq(l, 1, Len(l) - 1)) \o <<",", " ">> \o l[Len(l)]

\* C8 as stated: in every export row, a list cell of any fixed column is
\* replaced by the ", "-join of its elements, and a non-list cell of a
\* column other than issued is unchanged.
C8_ListsJoinedEverywhere ==
  \A e \in Written :
    ~empty(df) =>
      \A col \in C8_Present : \A i \in 1..Len(df.rows) :
        LET x == Cell(df, i, col)
            y == Cell(e, i, C8_Display(col))
        IN  /\ y.k # "list"
            /\ x.k = "list" => y = Str(C8_CommaJoined(x.l))
            /\ (x.k # "list" /\ col # K_issued) => y = x

----------------------------------------------------------------------------
(* Properties of a search as a whole *)

\* the GET failed: no reply came, or one whose status is not 2xx
HttpFailed ==
  httpCalls > 0 /\ (response.kind = "network" \/ response.status \notin 200..299)

RowLinesEchoed == \E n \in 1..Len(out) : out[n][2] > 0

\* C9: when the HTTP GET fails (network failure or a status that is not
\* 2xx) the search aborts with that error: no table is returned, no row is
\* echoed, no CSV file is written, and the error reaches the caller of
\* search_books (the CLI echoes it to stderr).
C9_FailedGetNoOutput ==
  HttpFailed =>
    /\ ~returned /\ df = EmptyFrame /\ csv = <<>> /\ ~RowLinesEchoed
    /\ raised = (IF response.kind = "network" THEN "ConnectionError" ELSE "HTTPError")
    /\ pc \in {"raise", "raised", "done"}
    /\ pc = "done" => mode = "cli" /\ err = <<raised>> /\ out = <<>>

\* C10: a run of `search` makes at most one HTTP GET, and none, and writes
\* no CSV file, when --list-topics is set or neither a query nor an author
\* is given, whatever the dates and topics; --list-topics comes first.
C10_AtMostOneGet ==
  /\ httpCalls <= 1
  /\ (mode = "cli" /\ (cli.list_topics \/ (~Truthy(cli.query) /\ ~Truthy(cli.author))))
       => httpCalls = 0 /\ csv = <<>> /\ pc \in {"cli", "done"}
  /\ (mode = "cli" /\ cli.list_topics /\ pc = "done")
       => out[1] = <<"Available topics:", 0>> /\ Len(out) = 18

C10_Witness ==
  /\ mode = "cli" /\ pc = "done" /\ ~cli.list_topics
  /\ ~Truthy(cli.query) /\ cli.author.isNone
  /\ ~cli.after.isNone /\ cli.topic # <<>> /\ cli.output
  /\ httpCalls = 0

====
